---- MODULE Spec2Model ----
(***************************************************************************)
(* Attendance-to-rank progression engine of sol-mainframe.                 *)
(*                                                                         *)
(* The model follows util/src/mainframe.rs: the rollover predicate         *)
(* has_date_rolled_over, the Profile constructors (new, from_row) and the  *)
(* Profile mutators (should_promote, try_award_mark, try_update_rank,      *)
(* try_reset_events).  The rank table and the per-attendee orchestration   *)
(* live in modules that are not part of the sources at hand (rank,         *)
(* event); they are taken from the design document and marked as such.     *)
(*                                                                         *)
(* A DateTime<Utc> is modelled at day granularity: an integer number of    *)
(* days since Monday 2024-12-23, the first day of ISO week 2024-W52.       *)
(***************************************************************************)
EXTENDS Integers, Sequences, FiniteSets, TLC

VARIABLES
    profile,     \* the Profile being operated on (struct Profile)
    old,         \* the same Profile as it was when the last operation was entered
    now,         \* the current instant, Utc::now(), in days since the epoch
    op,          \* the last operation executed
    arg,         \* the argument of the last operation, None if it takes none
    ret,         \* the value the last operation returned
    marks_in_week, \* history: marks awarded so far in the calendar week of now
    previous_date, \* argument of the last direct call of has_date_rolled_over
    rolled,      \* result of the last direct call of has_date_rolled_over
    events_table,   \* the rows of the events table of the Persistence Store
    written,        \* history: the Event each row of events_table was written from
    event_out,      \* the last Event rebuilt from a row, with the row's index
    fetch_outcome,  \* what database::get_event gave the last fetch-event-by-id
    fetch_response, \* what that fetch-event-by-id request got as its answer
    store,          \* the profiles table: member id -> Some(Profile) or None
    req             \* the event submissions in flight, one record per request

vars == <<profile, old, now, op, arg, ret, marks_in_week, previous_date, rolled,
          events_table, written, event_out, fetch_outcome, fetch_response,
          store, req>>

\* The state of a single Profile object and of the calls made on it.
profvars == <<profile, old, op, arg, ret, marks_in_week, previous_date, rolled>>
\* The state of the events table and of the reads made from it.
evvars == <<events_table, written, event_out, fetch_outcome, fetch_response>>
\* The state of the profiles table and of the event submissions.
subvars == <<store, req>>

-----------------------------------------------------------------------------
(* Bounds of the model.                                                    *)

\* Each window of instants covers days 0..MaxDay of a late-December start.
MaxDay == 7
\* Largest value of events_attended_this_week the model explores.
MaxEvents == 5
\* Largest value of total_marks the model explores.
MaxMarks == 2
\* Number of rank ids in the rank table.
NumRanks == 3
\* Number of member ids.
NumMembers == 2
\* Longest attendance list of an Event.
MaxAttendees == 2

-----------------------------------------------------------------------------
(* Option<T>: None is the empty tuple, Some(x) the one-element tuple.      *)

None == <<>>
Some(x) == <<x>>

-----------------------------------------------------------------------------
(* chrono: ISO weeks and weekdays of a day number.                         *)

\* ISO year and ISO week number of the epoch day (Monday 2024-12-23).
EpochIsoYear == 2024
EpochIsoWeek == 52

\* Number of ISO weeks of ISO year y (52, or 53 for a long year).
PYear(y) == (y + (y \div 4) - (y \div 100) + (y \div 400)) % 7
WeeksInIsoYear(y) == IF PYear(y) = 4 \/ PYear(y - 1) = 3 THEN 53 ELSE 52

\* The ISO week reached n weeks after week wk of ISO year y, as <<year, week>>.
RECURSIVE AddWeeks(_, _, _)
AddWeeks(y, wk, n) ==
    IF wk + n <= WeeksInIsoYear(y)
    THEN <<y, wk + n>>
    ELSE AddWeeks(y + 1, 0, n - (WeeksInIsoYear(y) - wk))

\* date.iso_week(): the ISO year and week a day belongs to.
IsoWeek(d) == AddWeeks(EpochIsoYear, EpochIsoWeek, d \div 7)
\* date.iso_week().week(): the week NUMBER alone, 1..53.
IsoWeekNumber(d) == IsoWeek(d)[2]

\* date.weekday(): 0 = Monday ... 6 = Sunday.
Weekday(d) == d % 7
Sun == 6

\* The instants the model draws from: two windows of MaxDay + 1 days, the
\* second one exactly 52 weeks after the first.
Days == (0 .. MaxDay) \cup ((52 * 7) .. (52 * 7 + MaxDay))

\* has_date_rolled_over whose Sunday rule does not look at the current weekday.
HasDateRolledOver_AnySunday(previous, current) ==
    IF IsoWeekNumber(current) # IsoWeekNumber(previous)
    THEN TRUE
    ELSE IF Weekday(previous) = Sun
         THEN TRUE
         ELSE FALSE

\* has_date_rolled_over with the week test written as == instead of !=.
HasDateRolledOver_SameWeek(previous, current) ==
    IF IsoWeekNumber(current) = IsoWeekNumber(previous)
    THEN TRUE
    ELSE IF Weekday(previous) = Sun /\ Weekday(current) # Sun
         THEN TRUE
         ELSE FALSE

-----------------------------------------------------------------------------
(* fn has_date_rolled_over(previous_date) with current_date = Utc::now().  *)

HasDateRolledOver(previous, current) ==
    IF IsoWeekNumber(current) # IsoWeekNumber(previous)
    THEN TRUE
    ELSE IF Weekday(previous) = Sun /\ Weekday(current) # Sun
         THEN TRUE
         ELSE FALSE

-----------------------------------------------------------------------------
(* Rank table (module rank).                                               *)

Ranks == 1 .. NumRanks
\* rank::EVENT_PER_WEEK_FOR_MARK
EVENT_PER_WEEK_FOR_MARK == 4
\* Rank::required_marks(): Some(marks) or None for the terminal rank.
RequiredMarks(rank_id) == IF rank_id < NumRanks THEN Some(rank_id) ELSE None

-----------------------------------------------------------------------------
(* struct Profile and its constructors.                                    *)

UserId == 1
UserName == Some("member")

\* Profile::new
ProfileNew(user_id, username, rank_id) ==
    [ user_id                   |-> user_id,
      username                  |-> username,
      rank_id                   |-> rank_id,
      last_event_attended_date  |-> None,
      total_marks               |-> 0,
      marks_at_current_rank     |-> 0,
      events_attended_this_week |-> 0 ]

\* The text of the last_event_attended_date column: the literal "null" or an
\* RFC3339 timestamp.
NullText == <<"null">>
ToRfc3339(d) == <<"rfc3339", d>>
ParseFromRfc3339(s) == s[2]

\* Profile::from_row, the row being the tuple of its seven columns.
FromRow(row) ==
    LET event_date_string == row[4]
        event_date_opt_string ==
            IF event_date_string = NullText THEN None ELSE Some(event_date_string)
        last_event_attended_date ==
            IF event_date_opt_string = None
            THEN None
            ELSE Some(ParseFromRfc3339(event_date_opt_string[1]))
    IN  [ user_id                   |-> row[1],
          username                  |-> row[2],
          rank_id                   |-> row[3],
          last_event_attended_date  |-> last_event_attended_date,
          total_marks               |-> row[5],
          marks_at_current_rank     |-> row[6],
          events_attended_this_week |-> row[7] ]

-----------------------------------------------------------------------------
(* Profile methods.  A &mut self method is an operator from the Profile    *)
(* at entry to the Profile at exit (p) and the returned value (ret).       *)

\* should_promote with the comparison written as >= instead of ==.
ShouldPromote_AtLeast(p) ==
    LET marks == RequiredMarks(p.rank_id)
    IN  IF marks # None
        THEN p.marks_at_current_rank >= marks[1]
        ELSE FALSE

\* Profile::should_promote
ShouldPromote(p) ==
    LET marks == RequiredMarks(p.rank_id)
    IN  IF marks # None
        THEN p.marks_at_current_rank = marks[1]
        ELSE FALSE

\* try_award_mark with the threshold test written as >= instead of ==.
TryAwardMark_AtLeast(p) ==
    IF p.events_attended_this_week >= EVENT_PER_WEEK_FOR_MARK
    THEN [ p   |-> [p EXCEPT !.total_marks = @ + 1,
                             !.marks_at_current_rank = @ + 1],
           ret |-> TRUE ]
    ELSE [ p |-> p, ret |-> FALSE ]

\* try_award_mark that forgets marks_at_current_rank.
TryAwardMark_TotalOnly(p) ==
    IF p.events_attended_this_week = EVENT_PER_WEEK_FOR_MARK
    THEN [ p   |-> [p EXCEPT !.total_marks = @ + 1], ret |-> TRUE ]
    ELSE [ p |-> p, ret |-> FALSE ]

\* try_award_mark that forgets total_marks.
TryAwardMark_RankOnly(p) ==
    IF p.events_attended_this_week = EVENT_PER_WEEK_FOR_MARK
    THEN [ p   |-> [p EXCEPT !.marks_at_current_rank = @ + 1], ret |-> TRUE ]
    ELSE [ p |-> p, ret |-> FALSE ]

\* try_award_mark with the threshold test written as <= instead of ==.
TryAwardMark_UpTo(p) ==
    IF p.events_attended_this_week <= EVENT_PER_WEEK_FOR_MARK
    THEN [ p   |-> [p EXCEPT !.total_marks = @ + 1,
                             !.marks_at_current_rank = @ + 1],
           ret |-> TRUE ]
    ELSE [ p |-> p, ret |-> FALSE ]

\* Profile::try_award_mark
TryAwardMark(p) ==
    IF p.events_attended_this_week = EVENT_PER_WEEK_FOR_MARK
    THEN [ p   |-> [p EXCEPT !.total_marks = @ + 1,
                             !.marks_at_current_rank = @ + 1],
           ret |-> TRUE ]
    ELSE [ p |-> p, ret |-> FALSE ]

\* try_update_rank that clears the marks before comparing the rank ids.
TryUpdateRank_ClearFirst(p, current_rank_id) ==
    IF p.rank_id # current_rank_id
    THEN [ p   |-> [p EXCEPT !.rank_id = current_rank_id,
                             !.marks_at_current_rank = 0],
           ret |-> TRUE ]
    ELSE [ p |-> [p EXCEPT !.marks_at_current_rank = 0], ret |-> FALSE ]

\* try_update_rank that keeps the marks of the old rank.
TryUpdateRank_KeepMarks(p, current_rank_id) ==
    IF p.rank_id # current_rank_id
    THEN [ p |-> [p EXCEPT !.rank_id = current_rank_id], ret |-> TRUE ]
    ELSE [ p |-> p, ret |-> FALSE ]

\* try_update_rank that clears the lifetime total together with the marks.
TryUpdateRank_ClearTotal(p, current_rank_id) ==
    IF p.rank_id # current_rank_id
    THEN [ p   |-> [p EXCEPT !.rank_id = current_rank_id,
                             !.marks_at_current_rank = 0,
                             !.total_marks = 0],
           ret |-> TRUE ]
    ELSE [ p |-> p, ret |-> FALSE ]

\* Profile::try_update_rank
TryUpdateRank(p, current_rank_id) ==
    IF p.rank_id # current_rank_id
    THEN [ p   |-> [p EXCEPT !.rank_id = current_rank_id,
                             !.marks_at_current_rank = 0],
           ret |-> TRUE ]
    ELSE [ p |-> p, ret |-> FALSE ]

\* try_reset_events without the else branch of the no-date case.
TryResetEvents_NoInit(p, current) ==
    IF p.last_event_attended_date # None
    THEN IF HasDateRolledOver(p.last_event_attended_date[1], current)
         THEN [ p |-> [p EXCEPT !.events_attended_this_week = 0], ret |-> TRUE ]
         ELSE [ p |-> p, ret |-> FALSE ]
    ELSE [ p |-> p, ret |-> FALSE ]

\* try_reset_events that zeroes the counter whenever a date is stored.
TryResetEvents_Always(p, current) ==
    IF p.last_event_attended_date # None
    THEN [ p |-> [p EXCEPT !.events_attended_this_week = 0],
           ret |-> HasDateRolledOver(p.last_event_attended_date[1], current) ]
    ELSE [ p |-> [p EXCEPT !.events_attended_this_week = 0], ret |-> FALSE ]

\* Profile::try_reset_events, evaluated at the instant current
TryResetEvents(p, current) ==
    IF p.last_event_attended_date # None
    THEN IF HasDateRolledOver(p.last_event_attended_date[1], current)
         THEN [ p |-> [p EXCEPT !.events_attended_this_week = 0], ret |-> TRUE ]
         ELSE [ p |-> p, ret |-> FALSE ]
    ELSE [ p |-> [p EXCEPT !.events_attended_this_week = 0], ret |-> FALSE ]

\* Calendar week of a day (Monday to Sunday), counted from the epoch.
CalendarWeek(d) == d \div 7

\* Marks awarded in the current calendar week after an operation that
\* returned awarded.
MarksInWeekAfter(awarded) == IF awarded THEN marks_in_week + 1 ELSE marks_in_week

-----------------------------------------------------------------------------
(* The Persistence Store and the requests that use it, before any request. *)

Members == 1 .. NumMembers

\* The event submissions the model runs side by side.
Reqs == {"first", "second"}

\* A put_event request that has not arrived yet.
IdleRequest ==
    [ pc       |-> "idle",   \* idle, fetch, persist, logged, done, aborted
      event    |-> None,     \* Some(Event) once built from the body
      row      |-> 0,        \* index of the Event's row in events_table
      i        |-> 0,        \* position in event.attendance being processed
      seen     |-> None,     \* Some(stored value) the current Profile was read from
      local    |-> None,     \* Some(Profile) fetched and mutated, not yet persisted
      failed   |-> FALSE,    \* a Profile fetch or persist of this request failed
      stale    |-> FALSE,    \* a persist overwrote a row changed since its fetch
      response |-> None ]    \* Some(StatusCode) once answered

\* Empty tables, no request yet.
NoStore ==
    /\ events_table = <<>>
    /\ written = <<>>
    /\ event_out = None
    /\ fetch_outcome = None
    /\ fetch_response = None
    /\ store = [m \in Members |-> None]
    /\ req = [r \in Reqs |-> IdleRequest]

-----------------------------------------------------------------------------
(* Initial states.                                                         *)

\* No direct call of has_date_rolled_over yet.
NoRollCall == previous_date = None /\ rolled = None

\* A member's first Profile, built by Profile::new on some day.
Init ==
    /\ now \in {0, 52 * 7}
    /\ \E r \in Ranks : profile = ProfileNew(UserId, UserName, r)
    /\ old = profile
    /\ op = "new"
    /\ ret = FALSE
    /\ arg = None
    /\ marks_in_week = 0
    /\ NoRollCall
    /\ NoStore

\* The rows of the profiles table the model loads: any stored counters within
\* the bounds, the date column being "null" or a timestamp not after now.
Rows(current) ==
    { <<UserId, UserName, r, dt, tm, mc, ev>> :
        r \in Ranks,
        dt \in {NullText} \cup { ToRfc3339(d) : d \in { x \in Days : x <= current } },
        tm \in 0 .. 1, mc \in 0 .. 0, ev \in 0 .. MaxEvents }

\* A Profile rebuilt from its stored row by Profile::from_row.
InitRow ==
    /\ now \in {0, 52 * 7}
    /\ \E row \in Rows(now) : profile = FromRow(row)
    /\ old = profile
    /\ op = "from_row"
    /\ ret = FALSE
    /\ arg = None
    /\ marks_in_week = 0
    /\ NoRollCall
    /\ NoStore

-----------------------------------------------------------------------------
(* Operations on the Profile, one call each.                               *)

\* Time passes: Utc::now() moves to a later day.
Tick ==
    /\ \E d \in Days : d > now /\ now' = d
    /\ marks_in_week' =
           IF CalendarWeek(now') # CalendarWeek(now) THEN 0 ELSE marks_in_week
    /\ old' = profile
    /\ op' = "tick"
    /\ arg' = None
    /\ ret' = FALSE
    /\ UNCHANGED <<profile, previous_date, rolled>>
    /\ UNCHANGED <<evvars, subvars>>

TryResetEventsCall ==
    LET r == TryResetEvents(profile, now)
    IN  /\ profile' = r.p
        /\ ret' = r.ret
        /\ old' = profile
        /\ op' = "try_reset_events"
        /\ arg' = None
        /\ UNCHANGED <<now, marks_in_week, previous_date, rolled>>
        /\ UNCHANGED <<evvars, subvars>>

\* profile.events_attended_this_week += 1
IncrementEvents ==
    /\ profile.events_attended_this_week < MaxEvents
    /\ profile' = [profile EXCEPT !.events_attended_this_week = @ + 1]
    /\ old' = profile
    /\ op' = "increment"
    /\ arg' = None
    /\ ret' = FALSE
    /\ UNCHANGED <<now, marks_in_week, previous_date, rolled>>
    /\ UNCHANGED <<evvars, subvars>>

\* profile.last_event_attended_date = Some(event.event_date)
SetLastEventDate ==
    /\ profile' = [profile EXCEPT !.last_event_attended_date = Some(now)]
    /\ old' = profile
    /\ op' = "set_date"
    /\ arg' = None
    /\ ret' = FALSE
    /\ UNCHANGED <<now, marks_in_week, previous_date, rolled>>
    /\ UNCHANGED <<evvars, subvars>>

TryAwardMarkCall ==
    LET r == TryAwardMark(profile)
    IN  /\ r.p.total_marks <= MaxMarks
        /\ profile' = r.p
        /\ ret' = r.ret
        /\ old' = profile
        /\ op' = "try_award_mark"
        /\ arg' = None
        /\ marks_in_week' = MarksInWeekAfter(r.ret)
        /\ UNCHANGED <<now, previous_date, rolled>>
        /\ UNCHANGED <<evvars, subvars>>

TryUpdateRankCall ==
    \E x \in Ranks :
        LET r == TryUpdateRank(profile, x)
        IN  /\ profile' = r.p
            /\ ret' = r.ret
            /\ old' = profile
            /\ op' = "try_update_rank"
            /\ arg' = Some(x)
            /\ UNCHANGED <<now, marks_in_week, previous_date, rolled>>
            /\ UNCHANGED <<evvars, subvars>>

ShouldPromoteCall ==
    /\ ret' = ShouldPromote(profile)
    /\ old' = profile
    /\ op' = "should_promote"
    /\ arg' = None
    /\ UNCHANGED <<profile, now, marks_in_week, previous_date, rolled>>
    /\ UNCHANGED <<evvars, subvars>>

Next ==
    \/ Tick
    \/ TryResetEventsCall
    \/ IncrementEvents
    \/ SetLastEventDate
    \/ TryAwardMarkCall
    \/ TryUpdateRankCall
    \/ ShouldPromoteCall

Spec == Init /\ [][Next]_vars

SpecRow == InitRow /\ [][Next]_vars

-----------------------------------------------------------------------------
(* Attendance logging of one attendee (event module): reset, increment,    *)
(* stamp the date, award.  The event's timestamp is the current day.       *)

LogAttendance ==
    LET r1 == TryResetEvents(profile, now)
        p2 == [r1.p EXCEPT !.events_attended_this_week = @ + 1,
                           !.last_event_attended_date = Some(now)]
        r3 == TryAwardMark(p2)
    IN  /\ p2.events_attended_this_week <= MaxEvents
        /\ r3.p.total_marks <= MaxMarks
        /\ profile' = r3.p
        /\ ret' = r3.ret
        /\ old' = profile
        /\ op' = "log_attendance"
        /\ arg' = None
        /\ marks_in_week' = MarksInWeekAfter(r3.ret)
        /\ UNCHANGED <<now, previous_date, rolled>>
        /\ UNCHANGED <<evvars, subvars>>

NextLog ==
    \/ Tick
    \/ LogAttendance
    \/ TryUpdateRankCall
    \/ ShouldPromoteCall

SpecLog == Init /\ [][NextLog]_vars

-----------------------------------------------------------------------------
(* Direct calls of has_date_rolled_over on drawn timestamps.               *)

InitRoll ==
    /\ now \in Days
    /\ NoRollCall
    /\ NoStore
    /\ profile = ProfileNew(UserId, UserName, 1)
    /\ old = profile
    /\ op = "new"
    /\ ret = FALSE
    /\ arg = None
    /\ marks_in_week = 0

HasDateRolledOverCall ==
    /\ previous_date # None
    /\ rolled' = Some(HasDateRolledOver(previous_date[1], now))
    /\ UNCHANGED <<profile, old, now, op, arg, ret, marks_in_week, previous_date>>
    /\ UNCHANGED <<evvars, subvars>>

\* Another timestamp is handed to the predicate.
PickPreviousDate ==
    /\ \E t \in Days : previous_date' = Some(t)
    /\ rolled' = None
    /\ UNCHANGED <<profile, old, now, op, arg, ret, marks_in_week>>
    /\ UNCHANGED <<evvars, subvars>>

NextRoll ==
    \/ HasDateRolledOverCall
    \/ PickPreviousDate

SpecRoll == InitRoll /\ [][NextRoll]_vars

-----------------------------------------------------------------------------
(* struct Event, its row in the events table and the way back.             *)

Locations == {"forge"}
Kinds == {"patrol"}
\* A metadata mapping: category name -> key -> value.
SomeMetadata == [notes |-> [weather |-> "ash"]]

\* The attendance lists of at most MaxAttendees member ids.
RECURSIVE SeqsUpTo(_, _)
SeqsUpTo(S, n) ==
    IF n = 0
    THEN {<<>>}
    ELSE LET shorter == SeqsUpTo(S, n - 1)
         IN  shorter \cup { Append(q, x) : q \in { t \in shorter : Len(t) = n - 1 },
                                           x \in S }

\* The Events created at the instant current.
Events(current) ==
    { [ host       |-> h,
        attendance |-> a,
        event_date |-> current,
        location   |-> l,
        kind       |-> k,
        metadata   |-> md ] :
        h \in Members, a \in SeqsUpTo(Members, MaxAttendees),
        l \in Locations, k \in Kinds, md \in {None, Some(SomeMetadata)} }

\* serde_json::to_string of a Vec<u64>: "[", the numbers separated by ",", "]".
RECURSIVE JsonItems(_)
JsonItems(a) ==
    IF Len(a) = 0 THEN <<>>
    ELSE IF Len(a) = 1 THEN <<a[1]>>
    ELSE <<a[1], ",">> \o JsonItems(Tail(a))
ToJsonArray(a) == <<"[">> \o JsonItems(a) \o <<"]">>
\* serde_json::from_str::<Vec<u64>>: the numbers between the separators.
FromJsonArray(t) == [ k \in 1 .. ((Len(t) - 1) \div 2) |-> t[2 * k] ]

\* serde_json text of a metadata mapping and its parse.
ToJsonObject(md) == <<"{", md, "}">>
FromJsonObject(t) == t[2]

\* SQL NULL.
Null == <<"NULL">>

\* The columns of the events table, in the order Event::from_row reads them.
EventColumns ==
    <<"event_id", "host", "attendance", "event_date", "location", "kind", "metadata">>

\* put_event's INSERT INTO events (host, attendance, event_date, kind,
\* location) VALUES (?1 .. ?5): the named columns get the bound values in
\* the order given, event_id is assigned by the table, every other column
\* is NULL.
InsertedEventRow(event_id, event) ==
    LET names  == <<"host", "attendance", "event_date", "kind", "location">>
        values == << event.host,
                     ToJsonArray(event.attendance),
                     ToRfc3339(event.event_date),
                     event.kind,
                     event.location >>
        Bound(c) == { k \in 1 .. Len(names) : names[k] = c }
    IN  [ c \in 1 .. Len(EventColumns) |->
            IF EventColumns[c] = "event_id" THEN event_id
            ELSE IF Bound(EventColumns[c]) # {}
                 THEN values[CHOOSE k \in Bound(EventColumns[c]) : TRUE]
                 ELSE Null ]

\* Event::from_row
EventFromRow(row) ==
    LET metadata_str == IF row[7] = Null THEN None ELSE Some(row[7])
    IN  [ host       |-> row[2],
          attendance |-> FromJsonArray(row[3]),
          event_date |-> ParseFromRfc3339(row[4]),
          location   |-> row[5],
          kind       |-> row[6],
          metadata   |-> IF metadata_str = None
                         THEN None
                         ELSE Some(FromJsonObject(metadata_str[1])) ]

-----------------------------------------------------------------------------
(* The events table: the write of put_event and the reads.                 *)

InitStore ==
    /\ now \in {0, 52 * 7}
    /\ profile = ProfileNew(UserId, UserName, 1)
    /\ old = profile
    /\ op = "new"
    /\ ret = FALSE
    /\ arg = None
    /\ marks_in_week = 0
    /\ NoRollCall
    /\ NoStore

\* The INSERT of put_event, for an Event of any content; one row per
\* submission.
InsertEvent ==
    /\ Len(events_table) < Cardinality(Reqs)
    /\ \E e \in Events(now) :
          /\ events_table' =
                 Append(events_table, InsertedEventRow(Len(events_table) + 1, e))
          /\ written' = Append(written, e)
    /\ UNCHANGED <<event_out, fetch_outcome, fetch_response>>
    /\ UNCHANGED <<now, profvars, subvars>>

\* get_hosted: a row of the table is turned back into an Event.
ReadEvent ==
    /\ \E id \in 1 .. Len(events_table) :
          event_out' = Some(<<id, EventFromRow(events_table[id])>>)
    /\ UNCHANGED <<events_table, written, fetch_outcome, fetch_response>>
    /\ UNCHANGED <<now, profvars, subvars>>

\* What database::get_event can give for an id: Ok(Some(event)) or Ok(None)
\* as the table has it, Err for a store failure, or a panic of from_row on a
\* row that does not decode.
GetEventOutcomes(id) ==
    { IF id \in 1 .. Len(events_table)
      THEN <<"Ok", Some(EventFromRow(events_table[id]))>>
      ELSE <<"Ok", None>>,
      <<"Err">>,
      <<"Panic">> }

\* get_event_info_by_info: Json(get_event(..).await.unwrap_or(None)); a panic
\* unwinds the request without an answer.
GetEventInfoResponse(outcome) ==
    IF outcome[1] = "Panic" THEN <<"Aborted">>
    ELSE IF outcome[1] = "Ok" THEN <<"Json", outcome[2]>>
    ELSE <<"Json", None>>

GetEventInfo ==
    /\ \E id \in 1 .. (Cardinality(Reqs) + 1) :
          \E outcome \in GetEventOutcomes(id) :
              /\ fetch_outcome' = Some(outcome)
              /\ fetch_response' = Some(GetEventInfoResponse(outcome))
    /\ UNCHANGED <<events_table, written, event_out>>
    /\ UNCHANGED <<now, profvars, subvars>>

NextStore ==
    \/ InsertEvent
    \/ ReadEvent
    \/ GetEventInfo

SpecStore == InitStore /\ [][NextStore]_vars

-----------------------------------------------------------------------------
(* Event submission: put_event and the attendance logging it awaits.       *)

\* The rank the Group Directory reports for a member.
DirectoryRank(m) == ((m - 1) % NumRanks) + 1

\* Event::from_json_body: the names resolved to member ids, stamped with the
\* current instant.  log_event always sends metadata: None.
FromJsonBody(host, attendance, current) ==
    [ host       |-> host,
      attendance |-> attendance,
      event_date |-> current,
      location   |-> CHOOSE l \in Locations : TRUE,
      kind       |-> CHOOSE k \in Kinds : TRUE,
      metadata   |-> None ]

\* The bodies of a submission: a non-empty attendance list headed by the
\* host.
Bodies ==
    { <<a[1], a>> : a \in { t \in SeqsUpTo(Members, MaxAttendees) : Len(t) > 0 } }

\* Submissions are named in the order they arrive.
ArrivesInOrder(r) == r = "second" => req["first"].pc # "idle"

\* One attendee's Profile after an attendance at event_date processed at the
\* instant current: reset, increment, stamp, award.
LoggedProfile(p, current, event_date) ==
    LET r1 == TryResetEvents(p, current)
        p2 == [r1.p EXCEPT !.events_attended_this_week = @ + 1,
                           !.last_event_attended_date = Some(event_date)]
    IN  TryAwardMark(p2).p

\* The attendee a request is working on.
Attendee(r) == req[r].event[1].attendance[req[r].i]

\* The request record once attendee i is finished with, one way or another.
NextAttendee(q) ==
    [q EXCEPT !.i = @ + 1,
              !.seen = None,
              !.local = None,
              !.pc = IF q.i + 1 > Len(q.event[1].attendance)
                     THEN "logged" ELSE "fetch"]

InitEvent ==
    /\ now \in {0, 52 * 7}
    /\ profile = ProfileNew(UserId, UserName, 1)
    /\ old = profile
    /\ op = "new"
    /\ ret = FALSE
    /\ arg = None
    /\ marks_in_week = 0
    /\ NoRollCall
    /\ NoStore

\* put_event that goes on to the attendance logging without its INSERT.
PutEventBegin_NoInsert(r) ==
    /\ req[r].pc = "idle"
    /\ ArrivesInOrder(r)
    /\ \E b \in Bodies :
          LET event == FromJsonBody(b[1], b[2], now)
              row   == Len(events_table) + 1
          IN  /\ written' = Append(written, event)
              /\ req' = [req EXCEPT ![r] = [@ EXCEPT !.pc = "fetch",
                                                     !.event = Some(event),
                                                     !.row = row,
                                                     !.i = 1]]
    /\ UNCHANGED <<events_table, event_out, fetch_outcome, fetch_response>>
    /\ UNCHANGED <<now, profvars, store>>

\* put_event up to the call of log_attendance: the Event is built from the
\* body and its row is inserted.
PutEventBegin(r) ==
    /\ req[r].pc = "idle"
    /\ ArrivesInOrder(r)
    /\ \E b \in Bodies :
          LET event == FromJsonBody(b[1], b[2], now)
              row   == Len(events_table) + 1
          IN  /\ events_table' = Append(events_table, InsertedEventRow(row, event))
              /\ written' = Append(written, event)
              /\ req' = [req EXCEPT ![r] = [@ EXCEPT !.pc = "fetch",
                                                     !.event = Some(event),
                                                     !.row = row,
                                                     !.i = 1]]
    /\ UNCHANGED <<event_out, fetch_outcome, fetch_response>>
    /\ UNCHANGED <<now, profvars, store>>

\* log_attendance, one attendee: the Profile is fetched (a fresh one is made
\* if there is none) and updated in memory.
FetchProfile(r) ==
    /\ req[r].pc = "fetch"
    /\ LET a      == Attendee(r)
           stored == store[a]
           p0     == IF stored = None
                     THEN ProfileNew(a, UserName, DirectoryRank(a))
                     ELSE stored[1]
       IN  req' = [req EXCEPT ![r] =
                     [@ EXCEPT !.pc = "persist",
                               !.seen = Some(stored),
                               !.local = Some(LoggedProfile(p0, now,
                                                  req[r].event[1].event_date))]]
    /\ UNCHANGED <<now, profvars, evvars, store>>

\* log_attendance, one attendee: the updated Profile is written back.
PersistProfile(r) ==
    /\ req[r].pc = "persist"
    /\ LET a == Attendee(r)
       IN  /\ store' = [store EXCEPT ![a] = req[r].local]
           /\ req' = [req EXCEPT ![r] =
                        NextAttendee([@ EXCEPT !.stale =
                                         @ \/ store[a] # req[r].seen[1]])]
    /\ UNCHANGED <<now, profvars, evvars>>

\* The fetch or the persist of one attendee fails and logging goes on with
\* the next attendee.
SkipAttendee(r) ==
    /\ req[r].pc \in {"fetch", "persist"}
    /\ req' = [req EXCEPT ![r] = NextAttendee([@ EXCEPT !.failed = TRUE])]
    /\ UNCHANGED <<now, profvars, evvars, store>>

\* The fetch or the persist of one attendee fails and the request is given up.
AbortSubmission(r) ==
    /\ req[r].pc \in {"fetch", "persist"}
    /\ req' = [req EXCEPT ![r] = [@ EXCEPT !.failed = TRUE,
                                           !.seen = None,
                                           !.local = None,
                                           !.pc = "aborted"]]
    /\ UNCHANGED <<now, profvars, evvars, store>>

\* put_event after log_attendance has returned: StatusCode::OK.
PutEventRespond(r) ==
    /\ req[r].pc = "logged"
    /\ req' = [req EXCEPT ![r] = [@ EXCEPT !.pc = "done", !.response = Some("OK")]]
    /\ UNCHANGED <<now, profvars, evvars, store>>

\* Two submissions side by side, the store answering every call.
NextEvent ==
    \/ \E r \in Reqs : PutEventBegin(r)
    \/ \E r \in Reqs : FetchProfile(r)
    \/ \E r \in Reqs : PersistProfile(r)
    \/ \E r \in Reqs : PutEventRespond(r)

SpecEvent == InitEvent /\ [][NextEvent]_vars

\* One submission, the store failing at any fetch or persist.
NextFail ==
    \/ PutEventBegin("first")
    \/ FetchProfile("first")
    \/ PersistProfile("first")
    \/ SkipAttendee("first")
    \/ AbortSubmission("first")
    \/ PutEventRespond("first")

SpecFail == InitEvent /\ [][NextFail]_vars

-----------------------------------------------------------------------------
(* Properties.                                                             *)

\* The fields of a Profile that none of the mutators is meant to touch.
SameIdentity(p, q) == p.user_id = q.user_id /\ p.username = q.username

\* C1: in every state reached from a fresh Profile by attendance loggings,
\* weeks passing and rank updates, marks_at_current_rank is at most the
\* promotion threshold of the current rank, for every rank that has one.
C1_MarksWithinThreshold ==
    RequiredMarks(profile.rank_id) # None
        => profile.marks_at_current_rank <= RequiredMarks(profile.rank_id)[1]

\* C2: with every attendance processed as reset, increment, stamp, award, at
\* most one mark is awarded per calendar week: the award fires exactly at the
\* attendance that brings the counter to the threshold and at no later
\* attendance of that week.
C2_OneMarkPerWeek ==
    /\ marks_in_week <= 1
    /\ op = "log_attendance" =>
          /\ ret = (profile.events_attended_this_week = EVENT_PER_WEEK_FOR_MARK)
          /\ (marks_in_week = 1 /\ ~ret) =>
                 /\ profile.total_marks = old.total_marks
                 /\ profile.marks_at_current_rank = old.marks_at_current_rank

\* C2 witness: an attendance later in the week of an award got no mark.
C2_Witness ==
    /\ op = "log_attendance"
    /\ marks_in_week = 1
    /\ ~ret
    /\ old.events_attended_this_week = EVENT_PER_WEEK_FOR_MARK
    /\ profile.events_attended_this_week = EVENT_PER_WEEK_FOR_MARK + 1

\* The ISO week of a day as the calendar knows it: ISO year and week number.
SameIsoWeek(d, e) == IsoWeek(d) = IsoWeek(e)

\* C3: has_date_rolled_over(t) is true iff the ISO week of now differs from
\* the ISO week of t, or t is a Sunday and now is not.
C3_RolledIffWeekDiffers ==
    rolled # None =>
        rolled[1] = ( \/ ~SameIsoWeek(now, previous_date[1])
                      \/ ( /\ Weekday(previous_date[1]) = Sun
                           /\ Weekday(now) # Sun ) )

\* C4: for every now, has_date_rolled_over(now - 6 days) is true and
\* has_date_rolled_over(now - 5 days) is false.
C4_SixDaysTrueFiveDaysFalse ==
    rolled # None =>
        /\ previous_date[1] = now - 6 => rolled[1] = TRUE
        /\ previous_date[1] = now - 5 => rolled[1] = FALSE

\* C5: try_award_mark returns true and adds exactly 1 to total_marks and to
\* marks_at_current_rank when the weekly counter equals the threshold; for any
\* other counter value it returns false and leaves the Profile as it was.
C5_AwardExactlyAtThreshold ==
    op = "try_award_mark" =>
        IF old.events_attended_this_week = EVENT_PER_WEEK_FOR_MARK
        THEN /\ ret
             /\ profile.total_marks = old.total_marks + 1
             /\ profile.marks_at_current_rank = old.marks_at_current_rank + 1
             /\ profile.events_attended_this_week = old.events_attended_this_week
             /\ profile.rank_id = old.rank_id
             /\ profile.last_event_attended_date = old.last_event_attended_date
             /\ SameIdentity(profile, old)
        ELSE ~ret /\ profile = old

\* C5 witness: a call at the threshold that awarded a mark.
C5_Witness ==
    /\ op = "try_award_mark"
    /\ ret
    /\ old.events_attended_this_week = EVENT_PER_WEEK_FOR_MARK
    /\ profile.total_marks = old.total_marks + 1

\* C6: right after try_award_mark has fired, a second call without another
\* increment returns false and awards nothing.
C6_NoRefireWithoutIncrement ==
    [][ (op = "try_award_mark" /\ ret /\ op' = "try_award_mark")
            => /\ ~ret'
               /\ profile'.total_marks = profile.total_marks
               /\ profile'.marks_at_current_rank = profile.marks_at_current_rank
      ]_vars

\* C7: try_reset_events has three outcomes: without a last date it zeroes the
\* counter and returns false; with a date that has rolled over it zeroes the
\* counter and returns true; with a date that has not rolled over it leaves
\* the counter alone and returns false.
C7_ResetThreeOutcomes ==
    op = "try_reset_events" =>
        /\ profile = [old EXCEPT !.events_attended_this_week =
                                     profile.events_attended_this_week]
        /\ IF old.last_event_attended_date = None
           THEN profile.events_attended_this_week = 0 /\ ~ret
           ELSE IF HasDateRolledOver(old.last_event_attended_date[1], now)
                THEN profile.events_attended_this_week = 0 /\ ret
                ELSE /\ profile.events_attended_this_week
                            = old.events_attended_this_week
                     /\ ~ret

\* C7 witness: a counter that was running is zeroed by a rollover.
C7_Witness ==
    /\ op = "try_reset_events"
    /\ ret
    /\ old.events_attended_this_week > 0
    /\ profile.events_attended_this_week = 0

\* C8: try_update_rank(x) returns false and changes nothing when x is the
\* stored rank_id; otherwise it sets rank_id to x, zeroes
\* marks_at_current_rank, returns true and leaves the other fields alone.
C8_UpdateRankEffect ==
    op = "try_update_rank" =>
        IF arg[1] = old.rank_id
        THEN ~ret /\ profile = old
        ELSE /\ ret
             /\ profile = [old EXCEPT !.rank_id = arg[1],
                                      !.marks_at_current_rank = 0]

\* C8 witness: a rank change that cleared marks earned at the old rank.
C8_Witness ==
    /\ op = "try_update_rank"
    /\ ret
    /\ arg[1] # old.rank_id
    /\ old.marks_at_current_rank > 0
    /\ profile.marks_at_current_rank = 0
    /\ profile.total_marks = old.total_marks

\* The weekly counter went down in the last operation.
CounterDecreased ==
    profile.events_attended_this_week < old.events_attended_this_week

\* The last operation was a try_reset_events that saw a rolled-over date.
ResetByRollover ==
    /\ op = "try_reset_events"
    /\ old.last_event_attended_date # None
    /\ HasDateRolledOver(old.last_event_attended_date[1], now)

\* C9 as stated: the weekly counter is never negative and decreases only in
\* a reset to 0 caused by the rollover predicate being true for the stored
\* last_event_attended_date.
C9_DecreaseOnlyByRollover ==
    /\ profile.events_attended_this_week >= 0
    /\ CounterDecreased =>
          profile.events_attended_this_week = 0 /\ ResetByRollover

\* C9 amended: the weekly counter is never negative and decreases only in a
\* try_reset_events that sets it to 0, either because the stored date has
\* rolled over or because there is no stored date.
C9_DecreaseOnlyByReset ==
    /\ profile.events_attended_this_week >= 0
    /\ CounterDecreased =>
          /\ profile.events_attended_this_week = 0
          /\ op = "try_reset_events"
          /\ \/ ResetByRollover
             \/ old.last_event_attended_date = None

\* C9 witness: a Profile with a running counter and no date is reset.
C9_Witness ==
    /\ op = "try_reset_events"
    /\ old.last_event_attended_date = None
    /\ old.events_attended_this_week > 0
    /\ profile.events_attended_this_week = 0

\* C10: rank_id changes only in try_update_rank, and whenever it changes the
\* resulting marks_at_current_rank is 0.
C10_RankChangesOnlyByUpdate ==
    profile.rank_id # old.rank_id =>
        op = "try_update_rank" /\ profile.marks_at_current_rank = 0

\* C10 witness: the rank changed while marks were held at the old rank.
C10_Witness ==
    /\ profile.rank_id # old.rank_id
    /\ old.marks_at_current_rank > 0
    /\ op = "try_update_rank"

\* C11: total_marks never decreases: every step leaves it unchanged or adds
\* exactly 1 to it.
C11_TotalMarksMonotonic ==
    \/ profile.total_marks = old.total_marks
    \/ profile.total_marks = old.total_marks + 1

\* C11 witness: a rank change on a Profile that holds marks kept the total.
C11_Witness ==
    /\ op = "try_update_rank"
    /\ ret
    /\ old.total_marks > 0
    /\ profile.total_marks = old.total_marks

\* The current rank of p has a promotion threshold and p holds exactly it.
AtThreshold(p) ==
    /\ RequiredMarks(p.rank_id) # None
    /\ p.marks_at_current_rank = RequiredMarks(p.rank_id)[1]

\* The threshold of rank x is absent or higher than the one of rank y.
HigherOrAbsent(x, y) ==
    \/ RequiredMarks(x) = None
    \/ RequiredMarks(y) # None /\ RequiredMarks(x)[1] > RequiredMarks(y)[1]

\* C12: should_promote is true iff the rank has a threshold and
\* marks_at_current_rank equals it; after try_update_rank moves a promotable
\* Profile to a new rank with a higher or no threshold, marks_at_current_rank
\* is 0 and should_promote is false.
C12_PromoteIffAtThreshold ==
    /\ op = "should_promote" => ret = AtThreshold(profile)
    /\ ( /\ op = "try_update_rank"
         /\ ShouldPromote(old)
         /\ arg[1] # old.rank_id
         /\ HigherOrAbsent(arg[1], old.rank_id) )
       => /\ profile.marks_at_current_rank = 0
          /\ ~ShouldPromote(profile)

\* C12 witness: a promotable Profile was moved to the next rank.
C12_Witness ==
    /\ op = "try_update_rank"
    /\ ShouldPromote(old)
    /\ arg[1] # old.rank_id
    /\ HigherOrAbsent(arg[1], old.rank_id)
    /\ RequiredMarks(arg[1]) # None
    /\ profile.rank_id = arg[1]

\* C13: a Profile at threshold - 1 whose last attendance is in the current
\* calendar week reaches the threshold with one more attendance, the award
\* fires, and total_marks and marks_at_current_rank each grow by 1.
C13_FourthAttendanceAwards ==
    ( /\ op = "log_attendance"
      /\ old.events_attended_this_week = EVENT_PER_WEEK_FOR_MARK - 1
      /\ old.last_event_attended_date # None
      /\ CalendarWeek(old.last_event_attended_date[1]) = CalendarWeek(now) )
    => /\ profile.events_attended_this_week = EVENT_PER_WEEK_FOR_MARK
       /\ ret
       /\ profile.total_marks = old.total_marks + 1
       /\ profile.marks_at_current_rank = old.marks_at_current_rank + 1

\* C13 witness: such an attendance on a Sunday, the last one being that Sunday.
C13_Witness ==
    /\ op = "log_attendance"
    /\ old.events_attended_this_week = EVENT_PER_WEEK_FOR_MARK - 1
    /\ old.last_event_attended_date = Some(now)
    /\ Weekday(now) = Sun
    /\ ret

\* C17: whenever the new attendance lies in a later calendar week than
\* last_event_attended_date, the weekly counter is 1 after it is processed.
C17_NoCarryIntoLaterWeek ==
    ( /\ op = "log_attendance"
      /\ old.last_event_attended_date # None
      /\ CalendarWeek(now) > CalendarWeek(old.last_event_attended_date[1]) )
    => profile.events_attended_this_week = 1

\* C20: marks_at_current_rank is between 0 and total_marks.
C20_RankMarksWithinTotal ==
    /\ 0 <= profile.marks_at_current_rank
    /\ profile.marks_at_current_rank <= profile.total_marks

\* C20 witness: marks earned before and after a rank change.
C20_Witness ==
    /\ profile.marks_at_current_rank > 0
    /\ profile.marks_at_current_rank < profile.total_marks

\* C15: an Event written by the submission write path and rebuilt by
\* Event::from_row equals the original in every field, metadata included.
C15_EventRoundTrip ==
    event_out # None => event_out[1][2] = written[event_out[1][1]]

\* The answer a caller gets for an event id that does not exist.
NotFoundResponse == <<"Json", None>>

\* C16: a store failure or an undecodable row of fetch-event-by-id gives an
\* outcome the caller can tell apart from NotFound.
C16_FailureDistinctFromNotFound ==
    (fetch_outcome # None /\ fetch_outcome[1][1] \in {"Err", "Panic"})
        => fetch_response[1] # NotFoundResponse

\* How often member m occurs in the attendance list a.
Occurrences(a, m) == Cardinality({ k \in 1 .. Len(a) : a[k] = m })
\* No member occurs twice in a.
Distinct(a) == \A j, k \in 1 .. Len(a) : a[j] = a[k] => j = k

\* Request r has been answered, none of its Profile updates failed, and no
\* other submission has arrived: every attendee had a fresh Profile.
AloneAndDone(r) ==
    /\ req[r].pc = "done"
    /\ ~req[r].failed
    /\ \A o \in Reqs \ {r} : req[o].pc = "idle"

\* Every attendee of r's Event has a Profile with one attendance, no mark and
\* the Event's timestamp; no other member has a Profile.
AttendeesCountedOnce(r) ==
    \A m \in Members :
        IF Occurrences(req[r].event[1].attendance, m) > 0
        THEN /\ store[m] # None
             /\ store[m][1].events_attended_this_week = 1
             /\ store[m][1].total_marks = 0
             /\ store[m][1].last_event_attended_date
                    = Some(req[r].event[1].event_date)
        ELSE store[m] = None

\* C14 as stated: after an Event whose attendees all have fresh Profiles is
\* processed, every attendee's Profile has events_attended_this_week = 1,
\* total_marks = 0 and the Event's timestamp, and the other members'
\* Profiles are unchanged.
C14_FreshAttendeesCountOne ==
    \A r \in Reqs : AloneAndDone(r) => AttendeesCountedOnce(r)

\* C14 amended: the same, for an Event whose attendance list names no member
\* twice.
C14_DistinctFreshAttendeesCountOne ==
    \A r \in Reqs :
        (AloneAndDone(r) /\ Distinct(req[r].event[1].attendance))
            => AttendeesCountedOnce(r)

\* C14 witness: an Event with several distinct attendees has been processed.
C14_Witness ==
    \E r \in Reqs :
        /\ AloneAndDone(r)
        /\ Distinct(req[r].event[1].attendance)
        /\ Len(req[r].event[1].attendance) >= 2
        /\ AttendeesCountedOnce(r)

\* Occurrences of m in the Event of request r, 0 before r has arrived.
OccurrencesIn(r, m) ==
    IF req[r].event = None THEN 0
    ELSE Occurrences(req[r].event[1].attendance, m)
\* Attendances of m over both submissions.
Attended(m) == OccurrencesIn("first", m) + OccurrencesIn("second", m)
\* Attendances of m the stored Profile shows.
Counted(m) ==
    IF store[m] = None THEN 0 ELSE store[m][1].events_attended_this_week

\* Every submission that arrived has been answered and none of its updates
\* failed.
Settled == \A r \in Reqs : req[r].pc \in {"idle", "done"} /\ ~req[r].failed

\* C18: two submissions naming the same member can lose an update.  What
\* holds in every run: the stored counter never shows more than the member
\* attended, and it shows less only when some persist overwrote a row that
\* had changed since it was fetched.
C18_LostOnlyByStaleWrite ==
    Settled =>
        \A m \in Members :
            /\ Counted(m) <= Attended(m)
            /\ Counted(m) < Attended(m) => \E r \in Reqs : req[r].stale

\* C18 witness: both submissions name m once, both are answered, and the
\* stored counter shows a single attendance.
C18_Witness ==
    /\ Settled
    /\ \E m \in Members :
          /\ OccurrencesIn("first", m) = 1
          /\ OccurrencesIn("second", m) = 1
          /\ Counted(m) = 1

\* The row of r's Event is in the events table.
EventRowPresent(r) ==
    /\ req[r].row \in 1 .. Len(events_table)
    /\ events_table[req[r].row] = InsertedEventRow(req[r].row, req[r].event[1])

\* C19: the Event row is persisted before any attendee Profile is updated, a
\* failed fetch or persist of a Profile never removes it, and the success
\* response is sent only after attendance logging has finished.
C19_EventRowFirstAndKept ==
    /\ \A r \in Reqs :
          /\ req[r].pc # "idle" => EventRowPresent(r)
          /\ req[r].response # None =>
                /\ req[r].pc = "done"
                /\ req[r].i > Len(req[r].event[1].attendance)
    /\ \A m \in Members :
          store[m] # None =>
              \E r \in Reqs : EventRowPresent(r) /\ OccurrencesIn(r, m) > 0

\* C19 witness: a submission given up after a failure, one Profile already
\* updated, its Event row still in the table.
C19_Witness ==
    /\ req["first"].pc = "aborted"
    /\ req["first"].failed
    /\ req["first"].i > 1
    /\ EventRowPresent("first")
    /\ \E m \in Members : store[m] # None

====
